---- MODULE Spec2Model ----
(***************************************************************************)
(* Model of the MachineAI_Experiment training scripts:                     *)
(*   - experiment 2/util/train.py : one_epoch, step_lr, yolox_warm_cos_lr, *)
(*     get_lr_scheduler                                                    *)
(*   - experiment 2/dataset.py    : CityscapesDataset                      *)
(*   - experiment3/train.py       : TransE train() and the interrupt       *)
(*     handler of __main__                                                 *)
(* Each behaviour runs exactly one of the scripts; `program` says which.   *)
(* Losses are exact numbers; a mean sum/length is kept as the pair         *)
(* <<sum, length>> and compared by cross multiplication.                   *)
(***************************************************************************)
EXTENDS Integers, Sequences, FiniteSets

\* ---------------------------------------------------------------- bounds
MaxEpochs == 3
MaxSavePeriod == 2
MaxBatches == 2
MaxEpoches == 6
MaxTotalIters == 52
MaxIters == 4

\* values a batch loss (loss.item()) takes in the model
TrainLossValues == {1}
ValidateLossValues == {0, 1}

VARIABLES
    program,          \* which script this behaviour runs
    pc,               \* position of the running script
    args,             \* arguments of one_epoch / train, fixed for the run
    epoch,            \* one_epoch: 0-based epoch argument; TransE: 1-based loop variable
    iteration,        \* index of the next batch of the running pass
    total_loss,       \* sum of the training batch losses of the epoch
    validate_loss,    \* sum of the validation batch losses of the epoch
    history,          \* LossHistory: sequence of [epoch, train, validate]
    calls,            \* per pass: number of optimizer / scaler calls executed
    processed,        \* per pass: number of batches processed to the end
    bar_updates,      \* number of progress-bar updates and console lines of one_epoch
    periodic,         \* epochs that have an epoch-named checkpoint file
    best,             \* epoch whose weights the "best" file holds, 0: no file
    last,             \* epoch whose weights the "last"/"latest" file holds, 0: no file
    raised,           \* 1-based epoch in which a batch raised, 0: none
    train_losses,     \* TransE: mean training loss of every finished epoch
    validate_losses,  \* TransE: mean validation loss of every finished epoch
    output_path,      \* TransE: TRUE while the run's output directory exists
    logs,             \* TransE: the plot and loss logs written into output_path
    func,             \* the schedule get_lr_scheduler returned: the bound arguments
    iters,            \* argument of the last call of func
    out_lr,           \* what the last call of func returned or raised
    files,            \* CityscapesDataset.files: sequence of <<image, mask>>
    listing,          \* what the os.listdir loops of __init__ have still to yield
    origin,           \* for every entry of files, the city and image it was made from
    opened            \* the two paths the last __getitem__ opened

\* state the run of one script leaves untouched
NoTransE ==
    /\ train_losses = <<>>
    /\ validate_losses = <<>>
    /\ output_path = FALSE
    /\ logs = {}

NoOneEpoch ==
    /\ history = <<>>
    /\ calls = <<>>
    /\ processed = <<>>
    /\ bar_updates = 0
    /\ raised = 0

NoSchedule ==
    /\ func = <<>>
    /\ iters = <<>>
    /\ out_lr = <<>>

NoCheckpoints ==
    /\ epoch = 0
    /\ iteration = 0
    /\ total_loss = 0
    /\ validate_loss = 0
    /\ periodic = {}
    /\ best = 0
    /\ last = 0

NoDataset ==
    /\ files = <<>>
    /\ listing = <<>>
    /\ origin = <<>>
    /\ opened = <<>>

datasetVars == <<files, listing, origin, opened>>
transEVars == <<train_losses, validate_losses, output_path, logs>>
scheduleVars == <<func, iters, out_lr>>
trainVars == <<epoch, iteration, total_loss, validate_loss, history, calls, processed,
               bar_updates, periodic, best, last, raised, train_losses, validate_losses,
               output_path, logs>>

\* ------------------------------------------------------------- arithmetic
\* a / b with b > 0, kept exact
Mean(sum, length) == <<sum, length>>

\* x <= y for two exact quotients with positive denominators
Leq(x, y) == x[1] * y[2] <= y[1] * x[2]

\* min(values) of a non-empty sequence of quotients
RECURSIVE MinOf(_)
MinOf(values) ==
    IF Len(values) = 1 THEN values[1]
    ELSE LET m == MinOf(Tail(values))
         IN IF Leq(values[1], m) THEN values[1] ELSE m

\* ---------------------------------------------------------- LossHistory
\* LossHistory(...): no epoch recorded yet
NewLossHistory == <<>>

\* history.append(epoch, loss, val_loss)
HistoryAppend(h, e, train, validate) ==
    Append(h, [epoch |-> e, train |-> train, validate |-> validate])

\* history.validate_losses
ValidateLosses(h) == [i \in 1..Len(h) |-> h[i].validate]

\* ------------------------------------------------------------- one_epoch
NoCalls == [zero_grad |-> 0, backward |-> 0, optimizer_step |-> 0,
            scaler_step |-> 0, scaler_update |-> 0]

OneEpochArgs ==
    [local_rank : {0, 1}, epoch_max : 1..MaxEpochs, save_period : 1..MaxSavePeriod,
     use_fp16 : BOOLEAN, scaler : {"None", "GradScaler"},
     length_train : 1..MaxBatches, length_validate : 1..MaxBatches,
     train_loader : 1..MaxBatches, validate_loader : 1..MaxBatches]

InitOneEpoch ==
    /\ program = "one_epoch"
    /\ pc = "call"
    /\ args \in OneEpochArgs
    /\ epoch = 0
    /\ iteration = 0
    /\ total_loss = 0
    /\ validate_loss = 0
    /\ history = NewLossHistory
    /\ calls = [pass \in {"train", "validate"} |-> NoCalls]
    /\ processed = [pass \in {"train", "validate"} |-> 0]
    /\ bar_updates = 0
    /\ periodic = {}
    /\ best = 0
    /\ last = 0
    /\ raised = 0
    /\ NoTransE
    /\ NoDataset
    /\ NoSchedule

\* the update of a batch, were the validation pass not told apart
BackwardAndStepInValidation(c, is_validation) ==
    IF args.use_fp16 /\ args.scaler # "None"
    THEN [c EXCEPT !.backward = @ + 1, !.scaler_step = @ + 1, !.scaler_update = @ + 1]
    ELSE [c EXCEPT !.backward = @ + 1, !.optimizer_step = @ + 1]

\* the backward pass and the parameter update of one batch
BackwardAndStep(c, is_validation) ==
    IF is_validation THEN c
    ELSE IF args.use_fp16 /\ args.scaler # "None"
         THEN [c EXCEPT !.backward = @ + 1, !.scaler_step = @ + 1, !.scaler_update = @ + 1]
         ELSE [c EXCEPT !.backward = @ + 1, !.optimizer_step = @ + 1]

\* optimizer.zero_grad() at the head of a batch
ZeroGrad(c, is_validation) ==
    IF is_validation THEN c ELSE [c EXCEPT !.zero_grad = @ + 1]

\* the progress output, were it not gated on the primary worker
BarUpdateAnyRank(n) == n + 1

\* process_bar.set_postfix / update at the tail of a batch
BarUpdate(n) == IF args.local_rank = 0 THEN n + 1 ELSE n

\* one iteration of the batch loop of one_generation
OneGenerationBatch(pass, length, loader, loss) ==
    /\ iteration < loader
    /\ iteration < length
    /\ calls' = [calls EXCEPT ![pass] = BackwardAndStep(ZeroGrad(@, pass = "validate"),
                                                        pass = "validate")]
    /\ processed' = [processed EXCEPT ![pass] = @ + 1]
    /\ bar_updates' = BarUpdate(bar_updates)
    /\ iteration' = iteration + 1

\* the batch loop is over: the loader is exhausted or iteration >= length
GenerationOver(length, loader) == iteration >= loader \/ iteration >= length

\* the exception, were it caught inside the batch loop
Swallow ==
    /\ raised' = epoch + 1
    /\ UNCHANGED pc

\* an exception leaves one_generation and one_epoch: nothing catches it
Propagate ==
    /\ raised' = epoch + 1
    /\ pc' = "aborted"

\* a batch raises while it is moved to the device, in forward() or in backward()
OneGenerationRaises(pass, length, loader, at) ==
    /\ iteration < loader
    /\ iteration < length
    /\ calls' = [calls EXCEPT ![pass] = IF at = "batch" THEN @
                                        ELSE ZeroGrad(@, pass = "validate")]
    /\ Propagate

OneEpochBegin ==
    /\ program = "one_epoch"
    /\ pc = "call"
    /\ pc' = "train"
    /\ iteration' = 0
    /\ total_loss' = 0
    /\ validate_loss' = 0
    /\ bar_updates' = BarUpdate(bar_updates)
    /\ UNCHANGED transEVars
    /\ UNCHANGED <<scheduleVars, datasetVars>>
    /\ UNCHANGED <<program, args, epoch, history, calls, processed, periodic, best, last, raised>>

TrainBatch ==
    /\ program = "one_epoch"
    /\ pc = "train"
    /\ \E loss \in TrainLossValues :
          /\ OneGenerationBatch("train", args.length_train, args.train_loader, loss)
          /\ total_loss' = total_loss + loss
    /\ UNCHANGED transEVars
    /\ UNCHANGED <<scheduleVars, datasetVars>>
    /\ UNCHANGED <<program, pc, args, epoch, validate_loss, history, periodic, best, last, raised>>

TrainBatchRaises ==
    /\ program = "one_epoch"
    /\ pc = "train"
    /\ \E at \in {"batch", "forward", "backward"} :
          OneGenerationRaises("train", args.length_train, args.train_loader, at)
    /\ UNCHANGED transEVars
    /\ UNCHANGED <<scheduleVars, datasetVars>>
    /\ UNCHANGED <<program, args, epoch, iteration, total_loss, validate_loss, history,
                   processed, bar_updates, periodic, best, last>>

TrainFinished ==
    /\ program = "one_epoch"
    /\ pc = "train"
    /\ GenerationOver(args.length_train, args.train_loader)
    /\ pc' = "validate"
    /\ iteration' = 0
    /\ bar_updates' = BarUpdate(bar_updates)
    /\ UNCHANGED transEVars
    /\ UNCHANGED <<scheduleVars, datasetVars>>
    /\ UNCHANGED <<program, args, epoch, total_loss, validate_loss, history, calls, processed,
                   periodic, best, last, raised>>

ValidateBatch ==
    /\ program = "one_epoch"
    /\ pc = "validate"
    /\ \E loss \in ValidateLossValues :
          /\ OneGenerationBatch("validate", args.length_validate, args.validate_loader, loss)
          /\ validate_loss' = validate_loss + loss
    /\ UNCHANGED transEVars
    /\ UNCHANGED <<scheduleVars, datasetVars>>
    /\ UNCHANGED <<program, pc, args, epoch, total_loss, history, periodic, best, last, raised>>

ValidateBatchRaises ==
    /\ program = "one_epoch"
    /\ pc = "validate"
    /\ \E at \in {"batch", "forward"} :
          OneGenerationRaises("validate", args.length_validate, args.validate_loader, at)
    /\ UNCHANGED transEVars
    /\ UNCHANGED <<scheduleVars, datasetVars>>
    /\ UNCHANGED <<program, args, epoch, iteration, total_loss, validate_loss, history,
                   processed, bar_updates, periodic, best, last>>

\* the save period, were it tested on the 0-based epoch
SavePeriodicZeroBased(e, save_period, epoch_max) == (e - 1) % save_period = 0 \/ e = epoch_max

\* (epoch + 1) % save_period == 0 or epoch + 1 == epoch_max
SavePeriodic(e, save_period, epoch_max) == e % save_period = 0 \/ e = epoch_max

\* the comparison with the minimum, were it turned around
SaveBestReversed(losses, mean) == Len(losses) <= 1 \/ Leq(MinOf(losses), mean)

\* len(validate_losses) <= 1 or mean <= min(validate_losses)
SaveBest(losses, mean) == Len(losses) <= 1 \/ Leq(mean, MinOf(losses))

\* the training script calls one_epoch for epoch = 0 .. epoch_max - 1
EpochLoop ==
    /\ epoch' = epoch + 1
    /\ pc' = IF epoch + 1 = args.epoch_max THEN "done" ELSE "call"

\* the tail of one_epoch, after both passes
OneEpochEnd ==
    /\ program = "one_epoch"
    /\ pc = "validate"
    /\ GenerationOver(args.length_validate, args.validate_loader)
    /\ LET e == epoch + 1
           mean == Mean(validate_loss, args.length_validate)
           h == HistoryAppend(history, e, Mean(total_loss, args.length_train), mean)
       IN IF args.local_rank = 0
          THEN /\ history' = h
               /\ bar_updates' = bar_updates + 1
               /\ periodic' = IF SavePeriodic(e, args.save_period, args.epoch_max)
                              THEN periodic \cup {e} ELSE periodic
               /\ best' = IF SaveBest(ValidateLosses(h), mean) THEN e ELSE best
               /\ last' = e
          ELSE UNCHANGED <<history, bar_updates, periodic, best, last>>
    /\ EpochLoop
    /\ UNCHANGED transEVars
    /\ UNCHANGED <<scheduleVars, datasetVars>>
    /\ UNCHANGED <<program, args, iteration, total_loss, validate_loss, calls, processed, raised>>

NextOneEpoch ==
    \/ OneEpochBegin
    \/ TrainBatch
    \/ TrainBatchRaises
    \/ TrainFinished
    \/ ValidateBatch
    \/ ValidateBatchRaises
    \/ OneEpochEnd

\* ------------------------------------------------------- TransE train()
TransEArgs ==
    [epoches : 1..MaxEpoches, train_batches : 1..MaxBatches, validate_batches : 1..MaxBatches]

InitTransE ==
    /\ program = "transe"
    /\ pc = "train"
    /\ args \in TransEArgs
    /\ epoch = 1
    /\ iteration = 0
    /\ total_loss = 0
    /\ validate_loss = 0
    /\ train_losses = <<>>
    /\ validate_losses = <<>>
    /\ output_path = TRUE
    /\ logs = {}
    /\ periodic = {}
    /\ best = 0
    /\ last = 0
    /\ NoOneEpoch
    /\ NoDataset
    /\ NoSchedule

\* one batch of `for _ in tqdm(range(train_batches))`
TransETrainBatch ==
    /\ program = "transe"
    /\ pc = "train"
    /\ iteration < args.train_batches
    /\ \E loss \in TrainLossValues : total_loss' = total_loss + loss
    /\ iteration' = iteration + 1
    /\ UNCHANGED <<program, pc, args, epoch, validate_loss, history, calls, processed,
                   bar_updates, periodic, best, last, raised>>
    /\ UNCHANGED transEVars
    /\ UNCHANGED <<scheduleVars, datasetVars>>

TransETrainFinished ==
    /\ program = "transe"
    /\ pc = "train"
    /\ iteration = args.train_batches
    /\ pc' = "validate"
    /\ iteration' = 0
    /\ UNCHANGED <<program, args, epoch, total_loss, validate_loss, history, calls, processed,
                   bar_updates, periodic, best, last, raised>>
    /\ UNCHANGED transEVars
    /\ UNCHANGED <<scheduleVars, datasetVars>>

\* one batch of `for _ in tqdm(range(validate_batches))`
TransEValidateBatch ==
    /\ program = "transe"
    /\ pc = "validate"
    /\ iteration < args.validate_batches
    /\ \E loss \in ValidateLossValues : validate_loss' = validate_loss + loss
    /\ iteration' = iteration + 1
    /\ UNCHANGED <<program, pc, args, epoch, total_loss, history, calls, processed,
                   bar_updates, periodic, best, last, raised>>
    /\ UNCHANGED transEVars
    /\ UNCHANGED <<scheduleVars, datasetVars>>

\* the means of the epoch are appended to the two loss lists
TransERecordLosses ==
    /\ program = "transe"
    /\ pc = "validate"
    /\ iteration = args.validate_batches
    /\ train_losses' = Append(train_losses, Mean(total_loss, args.train_batches))
    /\ validate_losses' = Append(validate_losses, Mean(validate_loss, args.validate_batches))
    /\ pc' = "save_periodic"
    /\ UNCHANGED <<program, args, epoch, iteration, total_loss, validate_loss, history, calls,
                   processed, bar_updates, periodic, best, last, raised, output_path, logs>>
    /\ UNCHANGED <<scheduleVars, datasetVars>>

\* epoch % 5 == 0 or epoch == epoches
TransESavePeriodicCond(e, epoches) == e % 5 = 0 \/ e = epoches

TransESavePeriodic ==
    /\ program = "transe"
    /\ pc = "save_periodic"
    /\ periodic' = IF TransESavePeriodicCond(epoch, args.epoches)
                   THEN periodic \cup {epoch} ELSE periodic
    /\ pc' = "save_best"
    /\ UNCHANGED <<program, args, epoch, iteration, total_loss, validate_loss, history, calls,
                   processed, bar_updates, best, last, raised>>
    /\ UNCHANGED transEVars
    /\ UNCHANGED <<scheduleVars, datasetVars>>

\* len(validate_losses) <= 0 or mean_validate_loss <= min(validate_losses)
TransESaveBestCond(losses, mean) == Len(losses) <= 0 \/ Leq(mean, MinOf(losses))

TransESaveBest ==
    /\ program = "transe"
    /\ pc = "save_best"
    /\ best' = IF TransESaveBestCond(validate_losses,
                                     Mean(validate_loss, args.validate_batches))
               THEN epoch ELSE best
    /\ pc' = "save_latest"
    /\ UNCHANGED <<program, args, epoch, iteration, total_loss, validate_loss, history, calls,
                   processed, bar_updates, periodic, last, raised>>
    /\ UNCHANGED transEVars
    /\ UNCHANGED <<scheduleVars, datasetVars>>

\* latest.pth is written and the epoch loop goes on or ends
TransESaveLatest ==
    /\ program = "transe"
    /\ pc = "save_latest"
    /\ last' = epoch
    /\ IF epoch < args.epoches
       THEN /\ epoch' = epoch + 1
            /\ pc' = "train"
            /\ iteration' = 0
            /\ total_loss' = 0
            /\ validate_loss' = 0
       ELSE /\ pc' = "plot"
            /\ UNCHANGED <<epoch, iteration, total_loss, validate_loss>>
    /\ UNCHANGED <<program, args, history, calls, processed, bar_updates, periodic, best, raised>>
    /\ UNCHANGED transEVars
    /\ UNCHANGED <<scheduleVars, datasetVars>>

\* the loss curves and the two loss logs are written, train() returns
TransEPlot ==
    /\ program = "transe"
    /\ pc = "plot"
    /\ logs' = {"Losses.png", "losses.txt", "validate_losses.txt"}
    /\ pc' = "done"
    /\ UNCHANGED <<program, args, epoch, iteration, total_loss, validate_loss, history, calls,
                   processed, bar_updates, periodic, best, last, raised, train_losses,
                   validate_losses, output_path>>
    /\ UNCHANGED <<scheduleVars, datasetVars>>

\* the handler, were it to leave the directory in place
KeepTree == UNCHANGED <<output_path, periodic, best, last, logs>>

\* shutil.rmtree(output_path)
RmTree ==
    /\ output_path' = FALSE
    /\ periodic' = {}
    /\ best' = 0
    /\ last' = 0
    /\ logs' = {}

\* a KeyboardInterrupt arrives while train() runs; the handler of __main__ runs
KeyboardInterrupt ==
    /\ program = "transe"
    /\ pc \in {"train", "validate", "save_periodic", "save_best", "save_latest", "plot"}
    /\ RmTree
    /\ pc' = "interrupted"
    /\ UNCHANGED <<program, args, epoch, iteration, total_loss, validate_loss, history, calls,
                   processed, bar_updates, raised, train_losses, validate_losses>>
    /\ UNCHANGED <<scheduleVars, datasetVars>>

NextTransE ==
    \/ TransETrainBatch
    \/ TransETrainFinished
    \/ TransEValidateBatch
    \/ TransERecordLosses
    \/ TransESavePeriodic
    \/ TransESaveBest
    \/ TransESaveLatest
    \/ TransEPlot
    \/ KeyboardInterrupt

\* ------------------------------------------------- learning-rate schedules
\* Rates and iteration counts are exact quotients <<n, d>>, d # 0.  A rate
\* is counted in units of 1e-6.
Q(n, d) == <<n, d>>

RECURSIVE Gcd(_, _)
Gcd(a, b) == IF b = 0 THEN a ELSE Gcd(b, a % b)
Abs(a) == IF a < 0 THEN 0 - a ELSE a

\* lowest terms, positive denominator
QNorm(x) ==
    LET g == Gcd(Abs(x[1]), Abs(x[2]))
        s == IF x[2] < 0 THEN 0 - 1 ELSE 1
    IN  <<s * (x[1] \div g), s * (x[2] \div g)>>

QLeq(x, y) == LET a == QNorm(x)  b == QNorm(y) IN a[1] * b[2] <= b[1] * a[2]
QEq(x, y) == QNorm(x) = QNorm(y)
QLt(x, y) == QLeq(x, y) /\ ~QEq(x, y)
QAdd(x, y) == QNorm(<<x[1] * y[2] + y[1] * x[2], x[2] * y[2]>>)
QSub(x, y) == QNorm(<<x[1] * y[2] - y[1] * x[2], x[2] * y[2]>>)
QMul(x, y) == QNorm(<<x[1] * y[1], x[2] * y[2]>>)
QDiv(x, y) == QNorm(<<x[1] * y[2], x[2] * y[1]>>)
QMin(x, y) == IF QLeq(x, y) THEN x ELSE y
QMax(x, y) == IF QLeq(y, x) THEN x ELSE y

\* base ** n for an integer n >= 0
RECURSIVE QPow(_, _)
QPow(base, n) == IF n = 0 THEN Q(1, 1) ELSE QMul(base, QPow(base, n - 1))

\* what a call returns, or the exception it raises
Returns(value) == [raises |-> "None", value |-> value]
Raises(exception) == [raises |-> exception, value |-> Q(0, 1)]

\* math.cos(math.pi * r): Bhaskara's quotient (1 - 4 r^2) / (1 + r^2) on
\* [0, 1/2], mirrored on [1/2, 1]; exact at r = 0, 1/3, 1/2, 2/3 and 1, the
\* only points in [0, 1] where r and the cosine are both rational.
Cos(r) ==
    LET x == QNorm(r)
        y == QSub(Q(1, 1), x)
    IN  IF QLeq(x, Q(1, 2))
        THEN QNorm(Q(x[2] * x[2] - 4 * x[1] * x[1], x[2] * x[2] + x[1] * x[1]))
        ELSE QNorm(Q(4 * y[1] * y[1] - y[2] * y[2], y[2] * y[2] + y[1] * y[1]))

\* (lr - warmup_lr_start) * pow(iters / float(warmup_total_iters), 2) + warmup_lr_start
WarmupBranch(f, it) ==
    LET r == QDiv(it, f.warmup_total_iters)
    IN  Returns(QAdd(QMul(QSub(f.lr, f.warmup_lr_start), QMul(r, r)), f.warmup_lr_start))

\* the cosine branch, were the cosine subtracted
CosBranchMinus(f, it) ==
    LET den == QSub(QSub(f.total_iters, f.warmup_total_iters), f.no_aug_iter)
    IN  IF den[1] = 0 THEN Raises("ZeroDivisionError")
        ELSE LET r == QDiv(QSub(it, f.warmup_total_iters), den)
             IN  Returns(QAdd(f.min_lr,
                              QMul(Q(1, 2), QMul(QSub(f.lr, f.min_lr),
                                                 QSub(Q(1, 1), Cos(r))))))

\* min_lr + 0.5 * (lr - min_lr) * (1.0 + math.cos(math.pi * (iters - warmup_total_iters)
\*                                / (total_iters - warmup_total_iters - no_aug_iter)))
CosBranch(f, it) ==
    LET den == QSub(QSub(f.total_iters, f.warmup_total_iters), f.no_aug_iter)
    IN  IF den[1] = 0 THEN Raises("ZeroDivisionError")
        ELSE LET r == QDiv(QSub(it, f.warmup_total_iters), den)
             IN  Returns(QAdd(f.min_lr,
                              QMul(Q(1, 2), QMul(QSub(f.lr, f.min_lr),
                                                 QAdd(Q(1, 1), Cos(r))))))

NoAugBranch(f, it) == Returns(f.min_lr)

yolox_warm_cos_lr(f, it) ==
    IF QLeq(it, f.warmup_total_iters) THEN WarmupBranch(f, it)
    ELSE IF QLeq(QSub(f.total_iters, f.no_aug_iter), it) THEN NoAugBranch(f, it)
    ELSE CosBranch(f, it)

\* the test, were only step sizes up to 0 rejected
StepSizeRejectedUpToZero(step_size) == QLeq(step_size, Q(0, 1))

\* the test that makes step_lr raise ValueError
StepSizeRejected(step_size) == QLt(step_size, Q(1, 1))

\* iters // step_size, for step_size >= 1
FloorDiv(it, step_size) == (it[1] * step_size[2]) \div (it[2] * step_size[1])

step_lr(f, it) ==
    IF StepSizeRejected(f.step_size) THEN Raises("ValueError")
    ELSE LET n == FloorDiv(it, f.step_size)
         IN  Returns(QMul(f.lr, QPow(f.decay_rate, n)))

\* default ratios of get_lr_scheduler
warmup_iters_ratio == Q(1, 10)
warmup_lr_ratio == Q(1, 10)
no_aug_iter_ratio == Q(3, 10)

\* partial(yolox_warm_cos_lr, lr, min_lr, total_iters, warmup_total_iters, ...)
CosSchedule(lr, min_lr, total_iters) ==
    [name |-> "yolox_warm_cos_lr", lr |-> lr, min_lr |-> min_lr, total_iters |-> total_iters,
     warmup_total_iters |-> QMin(QMax(QMul(warmup_iters_ratio, total_iters), Q(1, 1)), Q(3, 1)),
     warmup_lr_start |-> QMax(QMul(warmup_lr_ratio, lr), Q(1, 1)),
     no_aug_iter |-> QMin(QMax(QMul(no_aug_iter_ratio, total_iters), Q(1, 1)), Q(15, 1))]

\* partial(step_lr, lr, decay_rate, step_size)
StepSchedule(lr, decay_rate, step_size) ==
    [name |-> "step_lr", lr |-> lr, decay_rate |-> decay_rate, step_size |-> step_size]

\* the inputs of the model: rates in units of 1e-6, step_num 1 or 2 so that
\* the root (min_lr / lr) ** (1 / (step_num - 1)) is exact
LrValues == {Q(5, 1), Q(20, 1)}
MinLrValues == {Q(0, 1), Q(1, 1), Q(20, 1)}
StepNums == {1, 2}
DecayRates == {Q(0, 1), Q(1, 2), Q(1, 1), Q(2, 1)}
StepSizes == {Q(0 - 1, 1), Q(0, 1), Q(1, 2), Q(9, 10), Q(1, 1), Q(3, 2), Q(2, 1), Q(3, 1)}

SchedulerArgs ==
    [lr_decay_type : {"cos", "step"}, lr : LrValues \cup {Q(0, 1)}, min_lr : MinLrValues,
     total_iters : {Q(t, 1) : t \in 1..MaxTotalIters}, step_num : StepNums]

\* get_lr_scheduler has not been called yet
InitScheduler ==
    /\ program = "lr"
    /\ pc = "get_lr_scheduler"
    /\ args \in SchedulerArgs
    /\ (args.lr_decay_type = "cos" => args.step_num = 2)
    /\ (args.lr_decay_type = "step" => args.total_iters[1] <= MaxIters)
    /\ NoSchedule
    /\ NoCheckpoints
    /\ NoOneEpoch
    /\ NoDataset
    /\ NoTransE

\* step_lr is called on its own arguments
InitStepLr ==
    /\ program = "lr"
    /\ pc = "scheduled"
    /\ args = <<>>
    /\ func \in {StepSchedule(lr, d, s) : lr \in LrValues, d \in DecayRates, s \in StepSizes}
    /\ iters = <<>>
    /\ out_lr = <<>>
    /\ NoCheckpoints
    /\ NoOneEpoch
    /\ NoDataset
    /\ NoTransE

GetLrSchedulerCos ==
    /\ program = "lr"
    /\ pc = "get_lr_scheduler"
    /\ args.lr_decay_type = "cos"
    /\ func' = CosSchedule(args.lr, args.min_lr, args.total_iters)
    /\ pc' = "scheduled"
    /\ UNCHANGED <<program, args, iters, out_lr>>
    /\ UNCHANGED <<trainVars, datasetVars>>

GetLrSchedulerStep ==
    /\ program = "lr"
    /\ pc = "get_lr_scheduler"
    /\ args.lr_decay_type # "cos"
    /\ IF args.lr[1] = 0 \/ args.step_num = 1
       THEN /\ out_lr' = Raises("ZeroDivisionError")
            /\ pc' = "failed"
            /\ UNCHANGED func
       ELSE /\ func' = StepSchedule(args.lr, QPow(QDiv(args.min_lr, args.lr), 1),
                                    QDiv(args.total_iters, Q(args.step_num, 1)))
            /\ pc' = "scheduled"
            /\ UNCHANGED out_lr
    /\ UNCHANGED <<program, args, iters>>
    /\ UNCHANGED <<trainVars, datasetVars>>

\* the iteration numbers the schedule is called with: the epochs, and for the
\* cosine schedule the two branch boundaries
CallIters(f) ==
    IF f.name = "step_lr" THEN {Q(i, 1) : i \in 0..MaxIters}
    ELSE {Q(i, 1) : i \in 0..f.total_iters[1]}
         \cup {f.warmup_total_iters, QSub(f.total_iters, f.no_aug_iter)}

CallSchedule ==
    /\ program = "lr"
    /\ pc \in {"scheduled", "called"}
    /\ \E it \in CallIters(func) :
          /\ iters' = it
          /\ out_lr' = IF func.name = "step_lr" THEN step_lr(func, it)
                       ELSE yolox_warm_cos_lr(func, it)
    /\ pc' = "called"
    /\ UNCHANGED <<program, args, func>>
    /\ UNCHANGED <<trainVars, datasetVars>>

NextScheduler ==
    \/ GetLrSchedulerCos
    \/ GetLrSchedulerStep
    \/ CallSchedule

\* ----------------------------------------------------- CityscapesDataset
\* A name is a sequence of pieces of text, a path a sequence of names.
\* os.path.join(path, name), for a name that is not absolute
Join(path, name) == Append(path, name)

\* text.split(sep)[0]: the pieces before the first occurrence of sep
RECURSIVE SplitHead(_, _)
SplitHead(text, sep) ==
    IF text = <<>> \/ Head(text) = sep THEN <<>>
    ELSE <<Head(text)>> \o SplitHead(Tail(text), sep)

\* f"{image.split('_leftImg8bit')[0]}_gtFine_labelIds.png"
MaskName(image) == SplitHead(image, "_leftImg8bit") \o <<"_gtFine_labelIds.png">>

\* self.image_folder and self.mask_folder
ImageFolder(root_folder, subset) == Join(Join(<<root_folder>>, <<"leftImg8bit">>), subset)
MaskFolder(root_folder, subset) == Join(Join(<<root_folder>>, <<"gtFine">>), subset)

\* the pair, were the mask looked up in the mask root instead of its city folder
FileEntryNoCity(root_folder, subset, city, image) ==
    <<image, Join(MaskFolder(root_folder, subset), MaskName(image))>>

\* the pair __init__ appends for one image of one city
FileEntry(root_folder, subset, city, image) ==
    LET images == Join(ImageFolder(root_folder, subset), city)
        masks == Join(MaskFolder(root_folder, subset), city)
        mask == Join(masks, MaskName(image))
    IN  <<image, mask>>

\* the directory trees of the model: every city folder holds any of these names
Cities == {<<"aachen">>, <<"bochum">>}
ImageNames == {<<"a_000019", "_leftImg8bit", ".png">>,
               <<"a_000019", "_leftImg8bit", "_leftImg8bit", ".png">>,
               <<"b_000020", ".png">>}
Subsets == {<<"train">>, <<"val">>}
Trees == UNION {[present -> SUBSET ImageNames] : present \in SUBSET Cities}

\* CityscapesDataset(root_folder, subset) is entered
InitDataset ==
    /\ program = "dataset"
    /\ pc = "init"
    /\ args \in [root_folder : {<<"data">>}, subset : Subsets, tree : Trees]
    /\ files = <<>>
    /\ listing = [cities |-> DOMAIN args.tree, city |-> <<>>, images |-> {}]
    /\ origin = <<>>
    /\ opened = <<>>
    /\ NoCheckpoints
    /\ history = <<>>
    /\ calls = <<>>
    /\ processed = <<>>
    /\ bar_updates = 0
    /\ raised = 0
    /\ NoTransE
    /\ NoSchedule

\* `for city in os.listdir(self.image_folder)` yields its next city
DatasetNextCity ==
    /\ program = "dataset"
    /\ pc = "init"
    /\ listing.images = {}
    /\ \E city \in listing.cities :
          listing' = [cities |-> listing.cities \ {city}, city |-> city,
                      images |-> args.tree[city]]
    /\ UNCHANGED <<program, pc, args, files, origin, opened>>
    /\ UNCHANGED <<trainVars, scheduleVars>>

\* `for image in os.listdir(images)` yields its next image
DatasetAppendFile ==
    /\ program = "dataset"
    /\ pc = "init"
    /\ \E image \in listing.images :
          /\ files' = Append(files, FileEntry(args.root_folder, args.subset, listing.city, image))
          /\ origin' = Append(origin, [city |-> listing.city, image |-> image])
          /\ listing' = [listing EXCEPT !.images = @ \ {image}]
    /\ UNCHANGED <<program, pc, args, opened>>
    /\ UNCHANGED <<trainVars, scheduleVars>>

\* both loops are over, __init__ returns
DatasetConstructed ==
    /\ program = "dataset"
    /\ pc = "init"
    /\ listing.images = {}
    /\ listing.cities = {}
    /\ pc' = "constructed"
    /\ UNCHANGED <<program, args, files, listing, origin, opened>>
    /\ UNCHANGED <<trainVars, scheduleVars>>

\* __len__
DatasetLen == Len(files)

\* __getitem__(index): the paths handed to Image.open
GetItem ==
    /\ program = "dataset"
    /\ pc = "constructed"
    /\ \E index \in 0..(DatasetLen - 1) :
          opened' = [index |-> index, image_path |-> files[index + 1][1],
                     mask_path |-> files[index + 1][2]]
    /\ UNCHANGED <<program, pc, args, files, listing, origin>>
    /\ UNCHANGED <<trainVars, scheduleVars>>

NextDataset ==
    \/ DatasetNextCity
    \/ DatasetAppendFile
    \/ DatasetConstructed
    \/ GetItem

vars == <<program, pc, args, epoch, iteration, total_loss, validate_loss, history, calls,
          processed, bar_updates, periodic, best, last, raised, train_losses,
          validate_losses, output_path, logs, func, iters, out_lr, files, listing, origin,
          opened>>

Init == InitOneEpoch \/ InitTransE \/ InitScheduler \/ InitStepLr \/ InitDataset

Next == NextOneEpoch \/ NextTransE \/ NextScheduler \/ NextDataset

Spec == Init /\ [][Next]_vars

\* ---------------------------------------------------------------- claims
OneEpochRuns == program = "one_epoch"
TransERuns == program = "transe"
Primary == OneEpochRuns /\ args.local_rank = 0

\* the "best" file holds the weights of epoch b, and the validation loss of
\* epoch b is <= every validation loss in losses
HoldsTheMinimum(b, losses) ==
    /\ b \in 1..Len(losses)
    /\ \A i \in 1..Len(losses) : Leq(losses[b], losses[i])

\* C1: after epoch k the epoch whose weights were last written to the best
\* checkpoint has a validation loss <= every validation loss recorded in
\* epochs 1..k, in one_epoch on the primary worker and in the TransE loop.
BestNeverRegresses ==
    /\ (Primary /\ Len(history) >= 1 => HoldsTheMinimum(best, ValidateLosses(history)))
    /\ (TransERuns /\ pc \in {"train", "validate", "save_latest", "plot", "done"}
          /\ Len(validate_losses) >= 1
        => HoldsTheMinimum(best, validate_losses))

\* C1 witness: three epochs are over and the best file still holds epoch 2,
\* because epoch 3 validated strictly worse
BestKeptOverWorseEpoch ==
    /\ Primary
    /\ Len(history) = 3
    /\ best = 2
    /\ ~Leq(history[3].validate, history[2].validate)

\* C2: after a keyboard interrupt during TransE training the output
\* directory does not exist, and with it no periodic, best or latest
\* checkpoint and no loss log.
InterruptRemovesOutput ==
    TransERuns /\ pc = "interrupted"
    => /\ ~output_path
       /\ periodic = {}
       /\ best = 0
       /\ last = 0
       /\ logs = {}

\* C2 witness: the interrupt came in the validation batches of epoch 6,
\* after checkpoints of earlier epochs had been written
InterruptedAfterCheckpoints ==
    /\ TransERuns
    /\ pc = "interrupted"
    /\ epoch = 6
    /\ Len(validate_losses) = 5
    /\ iteration = 1
    /\ validate_loss = 1

\* the TransE epochs whose periodic save step is over
TransESaved ==
    IF pc \in {"train", "validate", "save_periodic"} THEN 1..(epoch - 1) ELSE 1..epoch

\* C3: an epoch-named checkpoint exists for a finished epoch exactly when
\* its 1-based number is a multiple of the save period (save_period on the
\* primary worker of one_epoch, 5 in TransE) or it is the final epoch.
PeriodicExactlyOnPeriod ==
    /\ (Primary =>
          /\ periodic \subseteq 1..epoch
          /\ \A e \in 1..epoch :
                e \in periodic <=> (e % args.save_period = 0 \/ e = args.epoch_max))
    /\ (TransERuns /\ pc # "interrupted" =>
          /\ periodic \subseteq TransESaved
          /\ \A e \in TransESaved :
                e \in periodic <=> (e % 5 = 0 \/ e = args.epoches))

\* C3 witness: a TransE run of six epochs is over, epochs 5 and 6 have a
\* periodic checkpoint and no other epoch has
PeriodicAtFiveAndFinal ==
    /\ TransERuns
    /\ pc = "done"
    /\ args.epoches = 6
    /\ periodic = {5, 6}

\* C4: no validation batch executes zero_grad, backward, an optimizer step
\* or a scaler step/update; every processed training batch executes exactly
\* one backward and one optimizer step, through the scaler exactly when
\* use_fp16 is true and scaler is not None.
UpdatesOnlyInTraining ==
    OneEpochRuns =>
       LET t == processed["train"]
           c == calls["train"]
       IN  /\ calls["validate"] = NoCalls
           /\ c.backward = t
           /\ IF args.use_fp16 /\ args.scaler # "None"
              THEN c.scaler_step = t /\ c.scaler_update = t /\ c.optimizer_step = 0
              ELSE c.optimizer_step = t /\ c.scaler_step = 0 /\ c.scaler_update = 0

\* C4 witness: training batches went through the scaler and validation
\* batches were processed after them
ScalerPathThenValidation ==
    /\ OneEpochRuns
    /\ args.use_fp16
    /\ args.scaler = "GradScaler"
    /\ calls["train"].scaler_step = 2
    /\ processed["validate"] = 2

\* the batches one pass processes
PassLength(length, loader) == IF length <= loader THEN length ELSE loader

\* C5: a worker whose local_rank is not 0 produces no progress output,
\* appends nothing to the loss history and writes no checkpoint, and still
\* runs both passes of every epoch; the primary worker appends to the
\* history exactly once per finished epoch and writes "last" after each.
PrimaryWorkerGating ==
    OneEpochRuns =>
       /\ (args.local_rank # 0 =>
             /\ bar_updates = 0
             /\ history = <<>>
             /\ periodic = {}
             /\ best = 0
             /\ last = 0)
       /\ (pc \in {"call", "done"} =>
             /\ processed["train"]
                  = epoch * PassLength(args.length_train, args.train_loader)
             /\ processed["validate"]
                  = epoch * PassLength(args.length_validate, args.validate_loader))
       /\ (args.local_rank = 0 =>
             /\ Len(history) = epoch
             /\ \A i \in 1..Len(history) : history[i].epoch = i
             /\ last = epoch)

\* C5 witness: a worker of rank 1 has finished two epochs
SecondaryWorkerRanTwoEpochs ==
    /\ OneEpochRuns
    /\ args.local_rank = 1
    /\ pc = "done"
    /\ epoch = 2
    /\ processed["validate"] = 4

\* x < 1 and x >= 1 for a quotient with positive denominator
BelowOne(x) == x[1] < x[2]

\* C6: step_lr raises for every step_size < 1; for step_size >= 1 it
\* returns lr for iters = 0 and lr * decay_rate ^ floor(iters / step_size)
\* in general.
StepLrContract ==
    program = "lr" /\ pc = "called" /\ func.name = "step_lr" =>
       LET s == QNorm(func.step_size)
       IN  IF BelowOne(s)
           THEN out_lr.raises = "ValueError"
           ELSE /\ out_lr.raises = "None"
                /\ (iters[1] = 0 => QEq(out_lr.value, func.lr))
                /\ \E n \in 0..MaxIters :
                      /\ n * s[1] * iters[2] <= iters[1] * s[2]
                      /\ iters[1] * s[2] < (n + 1) * s[1] * iters[2]
                      /\ QEq(out_lr.value, QMul(func.lr, QPow(func.decay_rate, n)))

\* C6 witness: a call with step size 3/2 at iteration 3 returned lr decayed
\* twice, 20 * (1/2)^2 = 5
StepLrDecayedTwice ==
    /\ program = "lr"
    /\ pc = "called"
    /\ func.name = "step_lr"
    /\ func.step_size = Q(3, 2)
    /\ func.decay_rate = Q(1, 2)
    /\ func.lr = Q(20, 1)
    /\ iters = Q(3, 1)
    /\ out_lr = Returns(Q(5, 1))

\* sum of the numbers of images of all city folders
RECURSIVE CountImages(_, _)
CountImages(tree, cities) ==
    IF cities = {} THEN 0
    ELSE LET city == CHOOSE c \in cities : TRUE
         IN  Cardinality(tree[city]) + CountImages(tree, cities \ {city})

\* the last piece of the last name of a path
Suffix(path) == LET name == path[Len(path)] IN name[Len(name)]

\* the folder a path lies in
Folder(path) == SubSeq(path, 1, Len(path) - 1)

\* C7: __len__ is the total number of images of all city folders, and the
\* mask path of every entry ends in "_gtFine_labelIds.png" and lies in the
\* mask-root folder of the city the entry's image was listed in.
DatasetLenAndMasks ==
    program = "dataset" /\ pc = "constructed" =>
       /\ DatasetLen = CountImages(args.tree, DOMAIN args.tree)
       /\ \A i \in 1..DatasetLen :
             /\ Suffix(files[i][2]) = "_gtFine_labelIds.png"
             /\ Folder(files[i][2])
                  = Append(MaskFolder(args.root_folder, args.subset), origin[i].city)
       /\ (opened # <<>> => opened.mask_path = files[opened.index + 1][2])

\* C7 witness: both cities hold all three images and the last entry was
\* retrieved
AllImagesIndexed ==
    /\ program = "dataset"
    /\ pc = "constructed"
    /\ DatasetLen = 6
    /\ opened # <<>>
    /\ opened.index = 5

\* C8: the image path of every entry, which __getitem__ opens, is
\* <root>/leftImg8bit/<subset>/<city>/<image>, in the city of its mask path.
ImagePathFollowsLayout ==
    program = "dataset" /\ pc = "constructed" =>
       /\ \A i \in 1..DatasetLen :
             files[i][1]
               = <<args.root_folder, <<"leftImg8bit">>, args.subset, origin[i].city,
                   origin[i].image>>
       /\ (opened # <<>> =>
             /\ Len(opened.image_path) = 5
             /\ opened.image_path[4] = opened.mask_path[4])

\* C9: a batch that raises aborts the epoch: one_epoch is left, nothing is
\* appended to the loss history and no checkpoint is written for that
\* epoch, and no further step of one_epoch is taken.
ExceptionAbortsEpoch ==
    OneEpochRuns /\ raised # 0 =>
       /\ pc = "aborted"
       /\ epoch = raised - 1
       /\ Len(history) < raised
       /\ raised \notin periodic
       /\ best < raised
       /\ last < raised
       /\ ~ENABLED NextOneEpoch

\* C9 witness: on the primary worker the second batch of the validation
\* pass of epoch 2 raised
SecondEpochAborted ==
    /\ Primary
    /\ raised = 2
    /\ processed["validate"] > processed["train"]
    /\ iteration = 1
    /\ Len(history) = 1
    /\ last = 1

CosScheduled == program = "lr" /\ pc \in {"scheduled", "called"} /\ func.name = "yolox_warm_cos_lr"

\* the branch boundaries of the cosine schedule
WarmupEnd == func.warmup_total_iters
NoAugStart == QSub(func.total_iters, func.no_aug_iter)

\* the schedule and the branches on both sides agree at the two boundaries
ContinuousAtBoundaries ==
    /\ yolox_warm_cos_lr(func, WarmupEnd) = Returns(func.lr)
    /\ WarmupBranch(func, WarmupEnd) = Returns(func.lr)
    /\ CosBranch(func, WarmupEnd) = Returns(func.lr)
    /\ yolox_warm_cos_lr(func, NoAugStart) = Returns(func.min_lr)
    /\ CosBranch(func, NoAugStart) = Returns(func.min_lr)
    /\ NoAugBranch(func, NoAugStart) = Returns(func.min_lr)
    /\ (pc = "called" /\ iters = WarmupEnd => out_lr = Returns(func.lr))
    /\ (pc = "called" /\ iters = NoAugStart => out_lr = Returns(func.min_lr))

WarmupWindowBounded == QLeq(Q(1, 1), WarmupEnd) /\ QLeq(WarmupEnd, Q(3, 1))

\* C10 as stated: for every total_iters the cosine schedule is continuous
\* at both boundaries and the warmup window is between 1 and 3 iterations.
CosContinuousForAll ==
    CosScheduled => ContinuousAtBoundaries /\ WarmupWindowBounded

\* C10 amended: the same for total_iters >= 3; the warmup window is between
\* 1 and 3 iterations for every total_iters.
CosContinuousFromThree ==
    CosScheduled =>
       /\ WarmupWindowBounded
       /\ (func.total_iters[1] >= 3 => ContinuousAtBoundaries)

\* C10 witness: with 20 iterations the warmup window is 2 long, and the
\* schedule was called at the start of the no-aug tail, iteration 14
CalledAtNoAugStart ==
    /\ CosScheduled
    /\ pc = "called"
    /\ func.total_iters = Q(20, 1)
    /\ WarmupEnd = Q(2, 1)
    /\ iters = Q(14, 1)
    /\ iters = NoAugStart
    /\ out_lr = Returns(func.min_lr)
====
